---- MODULE Spec2Model ----
(***************************************************************************)
(* Functional principal component analysis of scikit-fda:                  *)
(*   skfda/preprocessing/dim_reduction/projection/_fpca.py                 *)
(* One estimator instance (FPCABasis or FPCAGrid) and the functional data  *)
(* objects its caller holds.  A call of fit / transform / fit_transform    *)
(* runs statement block by statement block; an exception ends the call.    *)
(*                                                                         *)
(* Real numbers are fixed-point integers counting multiples of 1/Unit.     *)
(* The numerical primitives of numpy / scipy / scikit-learn (cholesky,     *)
(* solve, PCA) are modelled by their contract: the shapes they accept and  *)
(* return, and the error they raise.                                       *)
(*                                                                         *)
(* Spec             the estimator and its callers                          *)
(* SpecMaximumDepth skfda/ml/classification/maximum_depth.py: a            *)
(*                  MaximumDepth classifier, fitted and asked to predict   *)
(* SpecFunctions    regularization_penalty_matrix and the default weights  *)
(*                  of FPCAGrid.fit, computed by value on drawn inputs     *)
(***************************************************************************)
EXTENDS Integers, Sequences, FiniteSets, TLC

\* ------------------------------------------------------------------ bounds
\* Number of calls the caller makes on the estimator instance.
MaxCalls == 2

\* n_components=3 is the constructor default; the caller picks 1..default.
DefaultNComponents == 3

\* Reals are multiples of 1/Unit: halves (trapezoidal rule) and thirds and
\* halves (means of 3 and of 2 samples) are exact.
Unit == 2 * 3

\* ------------------------------------------------------- matrices (numpy)
NRows(m) == Len(m)
NCols(m) == Len(m[1])

RECURSIVE SeqSum(_)
SeqSum(s) == IF s = <<>> THEN 0 ELSE Head(s) + SeqSum(Tail(s))

\* column j of m as a sequence
Column(m, j) == [i \in 1..Len(m) |-> m[i][j]]

\* FData.mean(): the sample mean, one row (np.mean over axis 0)
Mean(m) == [j \in 1..NCols(m) |-> SeqSum(Column(m, j)) \div NRows(m)]

\* m -= row  (numpy broadcasting of a 1 x C row over the N rows)
SubtractRow(m, row) == [i \in 1..Len(m) |-> [j \in 1..Len(m[i]) |-> m[i][j] - row[j]]]

\* np.diff
Diff(s) == [k \in 1..(Len(s) - 1) |-> s[k + 1] - s[k]]

\* ------------------------------------------------------------ exceptions
AttributeError(msg) == [status |-> "raised", cls |-> "AttributeError", msg |-> msg]
ValueError(msg) == [status |-> "raised", cls |-> "ValueError", msg |-> msg]
LinAlgError(msg) == [status |-> "raised", cls |-> "LinAlgError", msg |-> msg]
Returned(v) == [status |-> "returned", value |-> v]
NoResult == [status |-> "none"]

MsgSampleSize == "The sample size must be bigger than the number of components"
MsgBasisSize == "The number of components should be smaller than the number of attributes of target principal components' basis."
MsgGridSize == "The number of components should be smaller than the number of discretization points of the functional data object."
MsgNoComponents == "object has no attribute 'components_'"
MsgNotPosDef == "Matrix is not positive definite"
MsgSingular == "Singular matrix"
MsgAmbiguous == "The truth value of an array with more than one element is ambiguous"
MsgMatmul == "matmul: Input operand has a mismatch in its core dimension"
MsgNaN == "Input contains NaN"
MsgDiag == "Input must be 1- or 2-d."
MsgPCASize == "n_components must be between 0 and min(n_samples, n_features)"

\* ------------------------------------------------------ the caller's data
\* Python's None and absent attributes
None == [tag |-> "None"]
NoAttr == [tag |-> "NoAttr"]

\* Three functional data objects the caller holds (values in whole units).
DataMatrices ==
  << << <<1>>, <<3>> >>,
     << <<1, 0, 2>>, <<2, 2, 2>> >>,
     << <<1, 1, 0>>, <<3, 1, 2>>, <<3, 1, 4>> >> >>

SamplePoints == << <<0>>, <<0, 1, 3>>, <<0, 1, 2>> >>

DomainRanges == << <<0, 1>>, <<0, 3>>, <<0, 2>> >>

Scaled(m) == [i \in 1..Len(m) |-> [j \in 1..Len(m[i]) |-> m[i][j] * Unit]]
ScaledSeq(s) == [k \in 1..Len(s) |-> s[k] * Unit]

XIds == 1..Len(DataMatrices)

\* FDataBasis: coefficients (N x B) over a basis
FDataBasisObjects ==
  [x \in XIds |->
     [coefficients |-> Scaled(DataMatrices[x]),
      basis |-> [n_basis |-> NCols(DataMatrices[x]),
                 domain_range |-> DomainRanges[x]]]]

\* FDataGrid: data_matrix (N x P) over P sample points
FDataGridObjects ==
  [x \in XIds |->
     [data_matrix |-> Scaled(DataMatrices[x]),
      sample_points |-> ScaledSeq(SamplePoints[x])]]

\* components_basis the caller may pass to FPCABasis(...)
CallerBases == {None,
                [tag |-> "Basis", n_basis |-> 2, domain_range |-> <<0, 1>>],
                [tag |-> "Basis", n_basis |-> 3, domain_range |-> <<0, 1>>]}

\* weights the caller may pass to FPCAGrid(...): nothing, a Python list, a
\* numpy array, or a callable evaluated at the sample points
CallerWeights ==
  {None,
   [tag |-> "list", v |-> <<Unit, Unit, Unit>>],
   [tag |-> "list", v |-> <<Unit, 0, Unit>>],
   [tag |-> "list", v |-> <<Unit, 0 - Unit, Unit>>],
   [tag |-> "ndarray", v |-> <<Unit, Unit, Unit>>],
   [tag |-> "callable", f |-> "identity"],
   [tag |-> "callable", f |-> "ones_fdatagrid"]}

\* penalty: an integer order, or the operator's coefficients
IntPenalty(k) == [tag |-> "int", k |-> k]
ArrayPenalty(c) == [tag |-> "array", c |-> c]
CallerPenalties == {IntPenalty(2), ArrayPenalty(<<0, 1>>), ArrayPenalty(<<0 - 1>>)}

\* ------------------------------------------------------------------ state
VARIABLES
  params,        \* the arguments the caller passed to the constructor
  kind,          \* class of the estimator instance: "FPCABasis" / "FPCAGrid"
  self,          \* the estimator's attributes
  fdata,         \* the caller's functional data objects, by XIds
  basisObjects,  \* Basis objects by reference: the one the caller passed as
                 \* components_basis ("caller"), the estimator's own ("copy")
  pc,            \* position of the running call, "idle" between calls
  frame,         \* the running call: method, argument X, local variables
  calls,         \* number of calls started
  pre,           \* the state when the running (or last) call started
  result,        \* outcome of the last finished call
  clf,           \* a MaximumDepth classifier's attributes
  prediction,    \* outcome of the classifier's last finished call
  arg,           \* arguments of a call of a module-level function
  ret            \* what that call returned or raised

fpcaVars == <<params, kind, self, fdata, basisObjects, pc, frame, calls, pre, result>>
mdVars == <<clf, prediction>>
fnVars == <<arg, ret>>
vars == <<fpcaVars, mdVars, fnVars>>

\* the objects a behaviour does not construct
Absent == [tag |-> "Absent"]

\* FPCA.__init__ / FPCABasis.__init__
FPCABasis_init(n, cb, centering, lambda, penalty) ==
  [n_components |-> n,
   centering |-> centering,
   regularization_parameter |-> lambda,
   penalty |-> penalty,
   components_basis |-> IF cb = None THEN None ELSE [tag |-> "ref", obj |-> "caller"],
   components_ |-> NoAttr,
   component_values_ |-> NoAttr,
   explained_variance_ratio_ |-> NoAttr]

\* FPCA.__init__ / FPCAGrid.__init__
FPCAGrid_init(n, w, centering, lambda, penalty) ==
  [n_components |-> n,
   centering |-> centering,
   regularization_parameter |-> lambda,
   penalty |-> penalty,
   weights |-> w,
   components_ |-> NoAttr,
   component_values_ |-> NoAttr,
   explained_variance_ratio_ |-> NoAttr]

NoFrame == [method |-> "none"]

Snapshot == [self |-> self, fdata |-> fdata, basisObjects |-> basisObjects,
             result |-> result]

Init ==
  /\ kind \in {"FPCABasis", "FPCAGrid"}
  /\ \E n \in 1..DefaultNComponents, centering \in BOOLEAN, lambda \in {0, 1},
        penalty \in CallerPenalties :
       \/ /\ kind = "FPCABasis"
          /\ \E cb \in CallerBases :
               /\ basisObjects = [caller |-> cb, copy |-> None]
               /\ self = FPCABasis_init(n, cb, centering, lambda, penalty)
               /\ params = [components_basis |-> cb]
          /\ fdata = FDataBasisObjects
       \/ /\ kind = "FPCAGrid"
          /\ basisObjects = [caller |-> None, copy |-> None]
          /\ \E w \in CallerWeights :
               /\ self = FPCAGrid_init(n, w, centering, lambda, penalty)
               /\ params = [weights |-> w]
          /\ fdata = FDataGridObjects
  /\ pc = "idle"
  /\ frame = NoFrame
  /\ calls = 0
  /\ result = NoResult
  /\ pre = [self |-> self, fdata |-> fdata, basisObjects |-> basisObjects,
            result |-> NoResult]
  /\ clf = Absent /\ prediction = Absent
  /\ arg = Absent /\ ret = Absent

\* ------------------------------------------------------------ call frames
Unbound == [tag |-> "Unbound"]

\* the local variables of fit, unbound until assigned
NewFrame(method, x) ==
  [method |-> method, X |-> x, call |-> calls + 1,
   n_basis |-> Unbound, n_samples |-> Unbound,
   g_matrix |-> Unbound, j_matrix |-> Unbound,
   fd_data |-> Unbound, weights_matrix |-> Unbound,
   penalty_matrix |-> Unbound, final_matrix |-> Unbound, pca |-> Unbound,
   regularized |-> FALSE]

Shape(r, c) == [rows |-> r, cols |-> c]

\* raise: the exception leaves the call (fit_transform does not catch it)
Raise(e) ==
  /\ result' = e @@ [method |-> frame.method, X |-> frame.X]
  /\ pc' = "idle"

\* return v from the outermost method
Return(v) ==
  /\ result' = Returned(v) @@ [method |-> frame.method, X |-> frame.X]
  /\ pc' = "idle"

\* "return self" of fit: back to the caller, or line 85 of fit_transform
ReturnSelf ==
  IF frame.method = "fit_transform"
    THEN /\ pc' = "transform"
         /\ UNCHANGED result
    ELSE Return("self")

FitEntry == IF kind = "FPCABasis" THEN "B_samples" ELSE "G_samples"

\* the caller calls estimator.fit(X)
CallFit(x) ==
  /\ pc = "idle"
  /\ calls < MaxCalls
  /\ calls' = calls + 1
  /\ pre' = Snapshot
  /\ frame' = NewFrame("fit", x)
  /\ pc' = FitEntry
  /\ UNCHANGED <<params, mdVars, fnVars, kind, self, fdata, basisObjects, result>>

\* the caller calls estimator.transform(X)
CallTransform(x) ==
  /\ pc = "idle"
  /\ calls < MaxCalls
  /\ calls' = calls + 1
  /\ pre' = Snapshot
  /\ frame' = NewFrame("transform", x)
  /\ pc' = "transform"
  /\ UNCHANGED <<params, mdVars, fnVars, kind, self, fdata, basisObjects, result>>

\* the caller calls estimator.fit_transform(X): self.fit(X, y) first
CallFitTransform(x) ==
  /\ pc = "idle"
  /\ calls < MaxCalls
  /\ calls' = calls + 1
  /\ pre' = Snapshot
  /\ frame' = NewFrame("fit_transform", x)
  /\ pc' = FitEntry
  /\ UNCHANGED <<params, mdVars, fnVars, kind, self, fdata, basisObjects, result>>

\* ------------------------------------------------ sklearn.decomposition.PCA
\* singular values PCA may report (the data decide which)
SingularValueChoices == {0, 1, 2}

Min(a, b) == IF a < b THEN a ELSE b

\* PCA(n_components).fit(M).singular_values_: n_components values, largest
\* first
SingularValues(n) ==
  {sv \in [1..n -> SingularValueChoices] :
     \A k \in 1..(n - 1) : sv[k] >= sv[k + 1]}

\* PCA(n_components).fit(M) on an M of the given shape: the fitted PCA objects
\* it may produce; none when fit raises ValueError
PCA_fit(n, shape) ==
  IF n > Min(shape.rows, shape.cols)
    THEN {}
    ELSE {[singular_values_ |-> sv,
           components_ |-> Shape(n, shape.cols),
           explained_variance_ratio_ |-> [len |-> n]] : sv \in SingularValues(n)}

\* mutant of Squares: the singular values stored unsquared
Squares_unsquared(sv) == sv

\* pca.singular_values_ ** 2
Squares(sv) == [k \in 1..Len(sv) |-> sv[k] * sv[k]]

\* ---------------------------------------------------------- FPCABasis.fit
\* the argument X of the running call
ArgX == fdata[frame.X]

\* bool(self.components_basis): None is false, a Basis object is true
HasComponentsBasis == self.components_basis # None

\* the Basis object self.components_basis refers to
ComponentsBasis == basisObjects[self.components_basis.obj]

\* lines 166-175: n_basis, n_samples, and the sample size check
FPCABasis_fit_samples ==
  /\ pc = "B_samples"
  /\ LET n_basis == IF HasComponentsBasis THEN ComponentsBasis.n_basis
                                          ELSE ArgX.basis.n_basis
         n_samples == NRows(ArgX.coefficients)
     IN /\ frame' = [frame EXCEPT !.n_basis = n_basis, !.n_samples = n_samples]
        /\ IF self.n_components > n_samples
             THEN Raise(AttributeError(MsgSampleSize))
             ELSE pc' = "B_n_basis" /\ UNCHANGED result
  /\ UNCHANGED <<params, mdVars, fnVars, kind, self, fdata, basisObjects, calls, pre>>

\* lines 177-182: n_components against the target basis
FPCABasis_fit_n_basis ==
  /\ pc = "B_n_basis"
  /\ IF self.n_components > frame.n_basis
       THEN Raise(AttributeError(MsgBasisSize))
       ELSE pc' = "B_centering" /\ UNCHANGED result
  /\ UNCHANGED <<params, mdVars, fnVars, kind, self, fdata, basisObjects, frame, calls, pre>>

\* lines 184-190: X.coefficients -= X.mean().coefficients, in place
FPCABasis_fit_centering ==
  /\ pc = "B_centering"
  /\ IF self.centering
       THEN fdata' = [fdata EXCEPT ![frame.X].coefficients =
                                      SubtractRow(@, Mean(@))]
       ELSE UNCHANGED fdata
  /\ pc' = "B_basis"
  /\ UNCHANGED <<params, mdVars, fnVars, kind, self, basisObjects, frame, calls, pre, result>>

\* lines 192-209: the basis of the components, its Gram matrix g_matrix and
\* the inner products j_matrix of X.basis with it (shapes)
FPCABasis_fit_basis ==
  /\ pc = "B_basis"
  /\ IF HasComponentsBasis
       THEN /\ basisObjects' =
                 [basisObjects EXCEPT ![self.components_basis.obj].domain_range =
                                         ArgX.basis.domain_range]
            /\ frame' = [frame EXCEPT
                           !.g_matrix = Shape(ComponentsBasis.n_basis,
                                              ComponentsBasis.n_basis),
                           !.j_matrix = Shape(ArgX.basis.n_basis,
                                              ComponentsBasis.n_basis)]
            /\ UNCHANGED self
       ELSE /\ self' = [self EXCEPT !.components_basis =
                                       [tag |-> "ref", obj |-> "copy"]]
            /\ basisObjects' =
                 [basisObjects EXCEPT !.copy = [tag |-> "Basis"] @@ ArgX.basis]
            /\ frame' = [frame EXCEPT
                           !.g_matrix = Shape(ArgX.basis.n_basis, ArgX.basis.n_basis),
                           !.j_matrix = Shape(ArgX.basis.n_basis, ArgX.basis.n_basis)]
  /\ pc' = "B_regularization"
  /\ UNCHANGED <<params, mdVars, fnVars, kind, fdata, calls, pre, result>>

\* lines 211-219: g_matrix + lambda * components_basis.penalty(self.penalty);
\* frame.regularized records that the penalty went into the matrix
FPCABasis_fit_regularization_always ==
  /\ pc = "B_regularization"
  /\ IF self.regularization_parameter >= 0
       THEN frame' = [frame EXCEPT !.penalty_matrix =
                        Shape(ComponentsBasis.n_basis, ComponentsBasis.n_basis)
                          @@ [penalty |-> self.penalty],
                                   !.regularized = TRUE]
       ELSE UNCHANGED frame
  /\ pc' = "B_cholesky"
  /\ UNCHANGED <<params, mdVars, fnVars, kind, self, fdata, basisObjects, calls, pre, result>>

FPCABasis_fit_regularization ==
  /\ pc = "B_regularization"
  /\ IF self.regularization_parameter > 0
       THEN frame' = [frame EXCEPT !.penalty_matrix =
                        Shape(ComponentsBasis.n_basis, ComponentsBasis.n_basis)
                          @@ [penalty |-> self.penalty],
                                   !.regularized = TRUE]
       ELSE UNCHANGED frame
  /\ pc' = "B_cholesky"
  /\ UNCHANGED <<params, mdVars, fnVars, kind, self, fdata, basisObjects, calls, pre, result>>

\* lines 221-222: np.linalg.cholesky(g_matrix) raises LinAlgError unless
\* g_matrix is positive definite, which the bases and lambda decide
FPCABasis_fit_cholesky ==
  /\ pc = "B_cholesky"
  /\ \E positive_definite \in BOOLEAN :
       IF positive_definite
         THEN pc' = "B_pca" /\ UNCHANGED result
         ELSE Raise(LinAlgError(MsgNotPosDef))
  /\ UNCHANGED <<params, mdVars, fnVars, kind, self, fdata, basisObjects, frame, calls, pre>>

\* a @ b of two shapes; Unbound when the inner dimensions differ
MatMul(a, b) == IF a.cols = b.rows THEN Shape(a.rows, b.cols) ELSE Unbound

Transpose(a) == Shape(a.cols, a.rows)

\* solve_triangular / np.linalg.solve of a square system a x = b
Solve(a, b) == IF a.rows = a.cols /\ a.cols = b.rows THEN Shape(a.cols, b.cols)
                                                     ELSE Unbound

ShapeOf(m) == Shape(NRows(m), NCols(m))

\* lines 224-245: L^-1 J^T, the matrix handed to PCA, PCA, and the component
\* coefficients solved back through L^T
FPCABasis_fit_pca ==
  /\ pc = "B_pca"
  /\ LET l_matrix == frame.g_matrix
         l_inv_j_t == Solve(l_matrix, Transpose(frame.j_matrix))
         final_matrix == MatMul(ShapeOf(ArgX.coefficients), Transpose(l_inv_j_t))
     IN IF PCA_fit(self.n_components, final_matrix) = {}
          THEN /\ Raise(ValueError(MsgPCASize))
               /\ frame' = [frame EXCEPT !.final_matrix = final_matrix]
          ELSE /\ \E pca \in PCA_fit(self.n_components, final_matrix) :
                    frame' = [frame EXCEPT !.final_matrix = final_matrix,
                                           !.pca = pca]
               /\ pc' = "B_store"
               /\ UNCHANGED result
  /\ UNCHANGED <<params, mdVars, fnVars, kind, self, fdata, basisObjects, calls, pre>>

\* lines 247-253: the three fitted attributes, then return self
FPCABasis_fit_store ==
  /\ pc = "B_store"
  /\ LET component_coefficients ==
           Transpose(Solve(Transpose(frame.g_matrix),
                           Transpose(frame.pca.components_)))
     IN self' = [self EXCEPT
                   !.component_values_ =
                      [fit |-> frame.call,
                       v |-> Squares(frame.pca.singular_values_)],
                   !.explained_variance_ratio_ =
                      [fit |-> frame.call] @@ frame.pca.explained_variance_ratio_,
                   !.components_ =
                      [fit |-> frame.call,
                       basis |-> self.components_basis,
                       coefficients |-> component_coefficients]]
  /\ ReturnSelf
  /\ UNCHANGED <<params, mdVars, fnVars, kind, fdata, basisObjects, frame, calls, pre>>

\* mutant of FPCABasis_transform: an unfitted estimator returns empty scores
FPCABasis_transform_unfitted_empty ==
  /\ pc = "transform"
  /\ kind = "FPCABasis"
  /\ IF self.components_ = NoAttr
       THEN Return([rows |-> NRows(ArgX.coefficients), cols |-> 0,
                    X |-> ArgX, components_ |-> NoAttr])
       ELSE Return([rows |-> NRows(ArgX.coefficients),
                    cols |-> self.components_.coefficients.rows,
                    X |-> ArgX,
                    components_ |-> self.components_])
  /\ UNCHANGED <<params, mdVars, fnVars, kind, self, fdata, basisObjects, frame, calls, pre>>

\* lines 255-271: X.inner_product(self.components_)
FPCABasis_transform ==
  /\ pc = "transform"
  /\ kind = "FPCABasis"
  /\ IF self.components_ = NoAttr
       THEN Raise(AttributeError(MsgNoComponents))
       ELSE Return([rows |-> NRows(ArgX.coefficients),
                    cols |-> self.components_.coefficients.rows,
                    X |-> ArgX,
                    components_ |-> self.components_])
  /\ UNCHANGED <<params, mdVars, fnVars, kind, self, fdata, basisObjects, frame, calls, pre>>

\* ----------------------------------------------------------- FPCAGrid.fit
\* mutant of FPCAGrid_fit_samples: the two checks in the other order
FPCAGrid_fit_samples_after_points ==
  /\ pc = "G_samples"
  /\ IF self.n_components > NCols(ArgX.data_matrix)
       THEN Raise(AttributeError(MsgGridSize))
     ELSE IF self.n_components > NRows(ArgX.data_matrix)
       THEN Raise(AttributeError(MsgSampleSize))
     ELSE pc' = "G_points" /\ UNCHANGED result
  /\ UNCHANGED <<params, mdVars, fnVars, kind, self, fdata, basisObjects, frame, calls, pre>>

\* lines 438-441: the sample size check
FPCAGrid_fit_samples ==
  /\ pc = "G_samples"
  /\ IF self.n_components > NRows(ArgX.data_matrix)
       THEN Raise(AttributeError(MsgSampleSize))
       ELSE pc' = "G_points" /\ UNCHANGED result
  /\ UNCHANGED <<params, mdVars, fnVars, kind, self, fdata, basisObjects, frame, calls, pre>>

\* lines 443-448: n_components against the number of discretization points
FPCAGrid_fit_points ==
  /\ pc = "G_points"
  /\ IF self.n_components > NCols(ArgX.data_matrix)
       THEN Raise(AttributeError(MsgGridSize))
       ELSE pc' = "G_centering" /\ UNCHANGED result
  /\ UNCHANGED <<params, mdVars, fnVars, kind, self, fdata, basisObjects, frame, calls, pre>>

\* mutant of FPCAGrid_fit_centering: fd_data a copy, X left as it was
FPCAGrid_fit_centering_copy ==
  /\ pc = "G_centering"
  /\ frame' = [frame EXCEPT !.fd_data = ShapeOf(ArgX.data_matrix),
                            !.n_samples = NRows(ArgX.data_matrix)]
  /\ pc' = "G_weights"
  /\ UNCHANGED <<params, mdVars, fnVars, kind, self, fdata, basisObjects, calls, pre, result>>

\* lines 450-462: fd_data is a reshaped view of X.data_matrix, so the in-place
\* subtraction of the mean changes X
FPCAGrid_fit_centering ==
  /\ pc = "G_centering"
  /\ IF self.centering
       THEN fdata' = [fdata EXCEPT ![frame.X].data_matrix =
                                      SubtractRow(@, Mean(@))]
       ELSE UNCHANGED fdata
  /\ frame' = [frame EXCEPT !.fd_data = ShapeOf(ArgX.data_matrix),
                            !.n_samples = NRows(ArgX.data_matrix)]
  /\ pc' = "G_weights"
  /\ UNCHANGED <<params, mdVars, fnVars, kind, self, basisObjects, calls, pre, result>>

NdArray(v) == [tag |-> "ndarray", v |-> v]

\* a 0-dimensional numpy array (np.squeeze of a single value)
NdScalar(v) == [tag |-> "ndarray0d", v |-> v]

\* "not w" of Python: "raise" where bool(w) raises ValueError
Not(w) ==
  CASE w.tag = "None" -> "True"
    [] w.tag = "list" -> IF Len(w.v) = 0 THEN "True" ELSE "False"
    [] w.tag = "ndarray" -> IF Len(w.v) > 1 THEN "raise"
                            ELSE IF Len(w.v) = 0 \/ w.v[1] = 0 THEN "True"
                            ELSE "False"
    [] w.tag = "ndarray0d" -> IF w.v = 0 THEN "True" ELSE "False"
    [] w.tag = "callable" -> "False"

\* lines 470-472: the weights of the trapezoidal rule
TrapezoidalWeights_rectangle(sample_points) ==
  LET differences == Diff(sample_points) \o <<0>>
  IN [k \in 1..Len(sample_points) |-> differences[k]]

TrapezoidalWeights(sample_points) ==
  LET differences == <<0>> \o Diff(sample_points) \o <<0>>
  IN [k \in 1..Len(sample_points) |-> (differences[k] + differences[k + 1]) \div 2]

\* lines 474-478: the callable at the sample points; an FDataGrid it returns
\* is reduced by np.squeeze(data_matrix)
CallWeights(f, sample_points) ==
  CASE f = "identity" -> NdArray(sample_points)
    [] f = "ones_fdatagrid" ->
         IF Len(sample_points) = 1
           THEN NdScalar(Unit)
           ELSE NdArray([k \in 1..Len(sample_points) |-> Unit])

\* lines 464-478: the value self.weights is given
ResolvedWeights(w, sample_points) ==
  IF Not(w) = "True" THEN NdArray(TrapezoidalWeights(sample_points))
  ELSE IF w.tag = "callable" THEN CallWeights(w.f, sample_points)
  ELSE w

\* lines 464-480: self.weights and weights_matrix = np.diag(self.weights)
FPCAGrid_fit_weights ==
  /\ pc = "G_weights"
  /\ IF Not(self.weights) = "raise"
       THEN /\ Raise(ValueError(MsgAmbiguous))
            /\ UNCHANGED <<self, frame>>
       ELSE LET w == ResolvedWeights(self.weights, ArgX.sample_points)
            IN /\ self' = [self EXCEPT !.weights = w]
               /\ IF w.tag = "ndarray0d"
                    THEN /\ Raise(ValueError(MsgDiag))
                         /\ UNCHANGED frame
                    ELSE /\ frame' = [frame EXCEPT !.weights_matrix =
                                        Shape(Len(w.v), Len(w.v)) @@ [diag |-> w.v]]
                         /\ pc' = "G_regularization"
                         /\ UNCHANGED result
  /\ UNCHANGED <<params, mdVars, fnVars, kind, fdata, basisObjects, calls, pre>>

\* a[:k] of Python on an axis of length n
SliceLen(n, k) == IF k >= 0 THEN Min(k, n) ELSE IF n + k > 0 THEN n + k ELSE 0

\* lines 274-304: the (P-1) x P difference matrix (shape)
auxiliary_penalty_matrix(sample_points) ==
  Shape(Len(sample_points) - 1, Len(sample_points))

\* lines 339-348: aux_penalty_1 after the terms i..last of the operator
\* (shape); Unbound when a product's inner dimensions differ
RECURSIVE PenaltyChain(_, _, _, _)
PenaltyChain(aux_penalty_1, n_points, i, last) ==
  IF i > last THEN aux_penalty_1
  ELSE LET aux_penalty_2 == Shape(n_points - 1, n_points)
           sliced == Shape(SliceLen(aux_penalty_2.rows, n_points - i),
                           SliceLen(aux_penalty_2.cols, n_points - i + 1))
           next == IF i > 1 THEN MatMul(sliced, aux_penalty_1) ELSE aux_penalty_1
       IN IF next = Unbound THEN Unbound
          ELSE PenaltyChain(Shape(next.rows, n_points), n_points, i + 1, last)

\* lines 307-349: regularization_penalty_matrix (shape; Unbound when numpy
\* raises ValueError)
regularization_penalty_matrix(sample_points, penalty) ==
  LET n_points == Len(sample_points)
  IN IF SeqSum(penalty) # 0 /\ Len(penalty) > 1
       THEN IF PenaltyChain(auxiliary_penalty_matrix(sample_points), n_points,
                            1, Len(penalty) - 1) = Unbound
              THEN Unbound
              ELSE Shape(n_points, n_points)
       ELSE Shape(n_points, n_points)

\* line 486: np.append(np.zeros(k), 1)
OperatorOfOrder(k) == [i \in 1..(k + 1) |-> IF i = k + 1 THEN 1 ELSE 0]

\* lines 485-486: the value self.penalty is given when lambda > 0
ResolvedPenalty(penalty) ==
  IF penalty.tag = "int" THEN ArrayPenalty(OperatorOfOrder(penalty.k)) ELSE penalty

\* lines 491-496: whether np.linalg.solve finds I + lambda * penalty_matrix
\* singular.  A multiple c0 of the identity gives (1 + lambda c0) I; with
\* coefficients >= 0 the matrix is positive definite; otherwise the grid decides
SolveSingular(lambda, c) ==
  IF \A i \in 2..Len(c) : c[i] = 0 THEN {1 + lambda * c[1] = 0}
  ELSE IF \A i \in 1..Len(c) : c[i] >= 0 THEN {FALSE}
  ELSE BOOLEAN

\* lines 482-496: the penalty matrix and the smoothed data fd_data;
\* frame.regularized records that np.linalg.solve produced fd_data
FPCAGrid_fit_regularization ==
  /\ pc = "G_regularization"
  /\ IF self.regularization_parameter > 0
       THEN LET penalty == ResolvedPenalty(self.penalty)
                penalty_matrix ==
                  regularization_penalty_matrix(ArgX.sample_points, penalty.c)
            IN /\ self' = [self EXCEPT !.penalty = penalty]
               /\ IF penalty_matrix = Unbound
                    THEN /\ Raise(ValueError(MsgMatmul))
                         /\ UNCHANGED frame
                    ELSE \E singular \in SolveSingular(self.regularization_parameter,
                                                      penalty.c) :
                           /\ frame' = [frame EXCEPT
                                          !.penalty_matrix = penalty_matrix,
                                          !.regularized = ~singular]
                           /\ IF singular
                                THEN Raise(LinAlgError(MsgSingular))
                                ELSE pc' = "G_pca" /\ UNCHANGED result
       ELSE /\ pc' = "G_pca"
            /\ UNCHANGED <<self, frame, result>>
  /\ UNCHANGED <<params, mdVars, fnVars, kind, fdata, basisObjects, calls, pre>>

\* lines 499-503: fd_data @ np.sqrt(weights_matrix) / np.sqrt(n_samples), and
\* PCA on it; the square root of a negative weight is NaN, which PCA rejects
FPCAGrid_fit_pca ==
  /\ pc = "G_pca"
  /\ LET final_matrix == MatMul(frame.fd_data, frame.weights_matrix)
     IN IF final_matrix = Unbound
          THEN Raise(ValueError(MsgMatmul)) /\ UNCHANGED frame
        ELSE IF \E k \in 1..Len(frame.weights_matrix.diag) :
                  frame.weights_matrix.diag[k] < 0
          THEN Raise(ValueError(MsgNaN)) /\ UNCHANGED frame
        ELSE IF PCA_fit(self.n_components, final_matrix) = {}
          THEN Raise(ValueError(MsgPCASize)) /\ UNCHANGED frame
        ELSE /\ \E pca \in PCA_fit(self.n_components, final_matrix) :
                  frame' = [frame EXCEPT !.final_matrix = final_matrix,
                                         !.pca = pca]
             /\ pc' = "G_store"
             /\ UNCHANGED result
  /\ UNCHANGED <<params, mdVars, fnVars, kind, self, fdata, basisObjects, calls, pre>>

\* mutant of SqrtWeightsSingular: the zero weight divides silently
SqrtWeightsSingular_never(weights_matrix) == FALSE

\* lines 504-506: np.linalg.solve raises LinAlgError on a zero diagonal entry
\* of np.sqrt(weights_matrix)
SqrtWeightsSingular(weights_matrix) ==
  \E k \in 1..Len(weights_matrix.diag) : weights_matrix.diag[k] = 0

\* mutant of FPCAGrid_fit_store: component_values_ and
\* explained_variance_ratio_ stored before the solve for components_
FPCAGrid_fit_store_values_first ==
  /\ pc = "G_store"
  /\ IF SqrtWeightsSingular(frame.weights_matrix)
       THEN /\ Raise(LinAlgError(MsgSingular))
            /\ self' = [self EXCEPT
                          !.component_values_ =
                             [fit |-> frame.call,
                              v |-> Squares(frame.pca.singular_values_)],
                          !.explained_variance_ratio_ =
                             [fit |-> frame.call] @@ frame.pca.explained_variance_ratio_]
       ELSE /\ self' = [self EXCEPT
                          !.components_ =
                             [fit |-> frame.call,
                              data_matrix |->
                                Transpose(Solve(frame.weights_matrix,
                                                Transpose(frame.pca.components_))),
                              sample_points |-> ArgX.sample_points],
                          !.component_values_ =
                             [fit |-> frame.call,
                              v |-> Squares(frame.pca.singular_values_)],
                          !.explained_variance_ratio_ =
                             [fit |-> frame.call] @@ frame.pca.explained_variance_ratio_]
            /\ ReturnSelf
  /\ UNCHANGED <<params, mdVars, fnVars, kind, fdata, basisObjects, frame, calls, pre>>

\* lines 504-510: the three fitted attributes, then return self
FPCAGrid_fit_store ==
  /\ pc = "G_store"
  /\ IF SqrtWeightsSingular(frame.weights_matrix)
       THEN /\ Raise(LinAlgError(MsgSingular))
            /\ UNCHANGED self
       ELSE /\ self' = [self EXCEPT
                          !.components_ =
                             [fit |-> frame.call,
                              data_matrix |->
                                Transpose(Solve(frame.weights_matrix,
                                                Transpose(frame.pca.components_))),
                              sample_points |-> ArgX.sample_points],
                          !.component_values_ =
                             [fit |-> frame.call,
                              v |-> Squares(frame.pca.singular_values_)],
                          !.explained_variance_ratio_ =
                             [fit |-> frame.call] @@ frame.pca.explained_variance_ratio_]
            /\ ReturnSelf
  /\ UNCHANGED <<params, mdVars, fnVars, kind, fdata, basisObjects, frame, calls, pre>>

\* mutant of FPCAGrid_transform: the input is centered in place first
FPCAGrid_transform_centering ==
  /\ pc = "transform"
  /\ kind = "FPCAGrid"
  /\ fdata' = [fdata EXCEPT ![frame.X].data_matrix = SubtractRow(@, Mean(@))]
  /\ IF self.components_ = NoAttr
       THEN Raise(AttributeError(MsgNoComponents))
     ELSE IF MatMul(ShapeOf(ArgX.data_matrix),
                    Transpose(self.components_.data_matrix)) = Unbound
       THEN Raise(ValueError(MsgMatmul))
     ELSE Return([rows |-> NRows(ArgX.data_matrix),
                  cols |-> self.components_.data_matrix.rows,
                  X |-> fdata'[frame.X],
                  components_ |-> self.components_])
  /\ UNCHANGED <<params, mdVars, fnVars, kind, self, basisObjects, frame, calls, pre>>

\* lines 512-532: FDataGrid(X.data_matrix @ components_.data_matrix^T)
FPCAGrid_transform ==
  /\ pc = "transform"
  /\ kind = "FPCAGrid"
  /\ IF self.components_ = NoAttr
       THEN Raise(AttributeError(MsgNoComponents))
     ELSE IF MatMul(ShapeOf(ArgX.data_matrix),
                    Transpose(self.components_.data_matrix)) = Unbound
       THEN Raise(ValueError(MsgMatmul))
     ELSE Return([rows |-> NRows(ArgX.data_matrix),
                  cols |-> self.components_.data_matrix.rows,
                  X |-> ArgX,
                  components_ |-> self.components_])
  /\ UNCHANGED <<params, mdVars, fnVars, kind, self, fdata, basisObjects, frame, calls, pre>>

Next ==
  \/ \E x \in XIds : CallFit(x)
  \/ \E x \in XIds : CallTransform(x)
  \/ \E x \in XIds : CallFitTransform(x)
  \/ FPCABasis_fit_samples
  \/ FPCABasis_fit_n_basis
  \/ FPCABasis_fit_centering
  \/ FPCABasis_fit_basis
  \/ FPCABasis_fit_regularization
  \/ FPCABasis_fit_cholesky
  \/ FPCABasis_fit_pca
  \/ FPCABasis_fit_store
  \/ FPCABasis_transform
  \/ FPCAGrid_fit_samples
  \/ FPCAGrid_fit_points
  \/ FPCAGrid_fit_centering
  \/ FPCAGrid_fit_weights
  \/ FPCAGrid_fit_regularization
  \/ FPCAGrid_fit_pca
  \/ FPCAGrid_fit_store
  \/ FPCAGrid_transform

Spec == Init /\ [][Next]_vars

\* ============================== skfda/ml/classification/maximum_depth.py
\* A MaximumDepth classifier, the training sets it is fitted on and the test
\* sets it classifies.  A sample is a curve observed at one point (its
\* value); objects are held by reference in clf.objects.

\* ------------------------------------------------------------------ bounds
\* Largest number of training samples of a fit.
MaxTrain == 3
\* Largest number of test samples of a predict.
MaxTest == 2
\* the class labels and the sample values the caller draws from
Labels == {0, 1}
Values == {0, 1}

NotFittedError(msg) == [status |-> "raised", cls |-> "NotFittedError", msg |-> msg]
MsgNotFitted == "This MaximumDepth instance is not fitted yet."

\* the non-empty sequences over S of length at most n
SeqsUpTo(S, n) == UNION {[1..k -> S] : k \in 1..n}

\* ------------------------------------------------------- depth (IntegratedDepth)
\* a depth object as constructed: parameters only
IntegratedDepth == [cls |-> "IntegratedDepth", fitted |-> FALSE]

Abs(a) == IF a < 0 THEN 0 - a ELSE a

\* number of elements of s that are <= x (the empirical distribution)
RECURSIVE CountLeq(_, _)
CountLeq(s, x) ==
  IF s = <<>> THEN 0
  ELSE (IF Head(s) <= x THEN 1 ELSE 0) + CountLeq(Tail(s), x)

\* depth.fit(X): the object keeps the samples it was fitted on
Depth_fit(depth, X) == [depth EXCEPT !.fitted = TRUE] @@ [samples |-> X]

\* distribution.predict(X): the depth of each sample of X in the fitted
\* samples, 1 - |1/2 - F(x)|, as the fraction <<numerator, denominator>>
Depth_predict(distribution, X) ==
  LET n == Len(distribution.samples)
  IN [s \in 1..Len(X) |->
        <<2 * n - Abs(n - 2 * CountLeq(distribution.samples, X[s])), 2 * n>>]

\* a > b for fractions with positive denominators
Greater(a, b) == a[1] * b[2] > b[1] * a[2]

\* sklearn.base.clone: a new unfitted object with the same parameters
clone(objects, ref) ==
  [objects |-> Append(objects, [cls |-> objects[ref].cls, fitted |-> FALSE]),
   ref |-> Len(objects) + 1]

\* ------------------------------------------------------------ numpy helpers
\* np.unique(y): the sorted distinct values
RECURSIVE SortedSeq(_)
SortedSeq(S) ==
  IF S = {} THEN <<>>
  ELSE LET m == CHOOSE a \in S : \A b \in S : a <= b
       IN <<m>> \o SortedSeq(S \ {m})

IndexOf(s, v) == CHOOSE i \in 1..Len(s) : s[i] = v

\* _fit_init(y): classes_, n_classes, y_ind
fit_init(y) ==
  LET classes == SortedSeq({y[k] : k \in 1..Len(y)})
  IN [classes_ |-> classes,
      n_classes |-> Len(classes),
      y_ind |-> [k \in 1..Len(y) |-> IndexOf(classes, y[k])]]

\* X[mask]: the samples of X at the positions where mask holds, in order
RECURSIVE Select(_, _, _)
Select(X, y_ind, cur_class) ==
  IF X = <<>> THEN <<>>
  ELSE (IF Head(y_ind) = cur_class THEN <<Head(X)>> ELSE <<>>)
         \o Select(Tail(X), Tail(y_ind), cur_class)

\* np.argmax scanning from position k with the best position so far: a later
\* value replaces the best only when strictly greater
RECURSIVE ArgMaxFrom_last(_, _, _)
ArgMaxFrom_last(s, k, best) ==
  IF k > Len(s) THEN best
  ELSE ArgMaxFrom_last(s, k + 1, IF Greater(s[best], s[k]) THEN best ELSE k)

RECURSIVE ArgMaxFrom(_, _, _)
ArgMaxFrom(s, k, best) ==
  IF k > Len(s) THEN best
  ELSE ArgMaxFrom(s, k + 1, IF Greater(s[k], s[best]) THEN k ELSE best)

\* np.argmax(depths, axis=0): for each sample the position of the class of
\* largest depth
ArgMaxAxis0(depths, n_samples) ==
  [s \in 1..n_samples |->
     ArgMaxFrom([c \in 1..Len(depths) |-> depths[c][s]], 1, 1)]

\* ------------------------------------------------------------- MaximumDepth
\* a Python list
List(v) == [tag |-> "list", v |-> v]

\* MaximumDepth.__init__(depth_method=IntegratedDepth())
MaximumDepth_init ==
  [objects |-> <<IntegratedDepth>>,
   depth_method |-> 1,
   classes_ |-> NoAttr,
   distributions_ |-> NoAttr]

\* the loop of fit over the classes: one clone of depth_method per class,
\* fitted on the samples of that class
RECURSIVE MaximumDepth_fit_loop(_, _, _, _, _)
MaximumDepth_fit_loop(st, cur_class, n_classes, X, y_ind) ==
  IF cur_class > n_classes THEN st
  ELSE LET cloned == clone(st.objects, st.depth_method)
           fitted == [cloned.objects EXCEPT
                        ![cloned.ref] = Depth_fit(cloned.objects[cloned.ref],
                                                  Select(X, y_ind, cur_class))]
       IN MaximumDepth_fit_loop(
            [st EXCEPT !.objects = fitted,
                       !.distributions_.v[cur_class] = cloned.ref],
            cur_class + 1, n_classes, X, y_ind)

\* the objects still referenced by the classifier, renumbered: depth_method
\* first, then the distributions in class order
Collected(st) ==
  [st EXCEPT
     !.objects = <<st.objects[st.depth_method]>>
                   \o [c \in 1..Len(st.distributions_.v) |->
                         st.objects[st.distributions_.v[c]]],
     !.depth_method = 1,
     !.distributions_.v = [c \in 1..Len(st.distributions_.v) |-> c + 1]]

\* MaximumDepth.fit(X, y)
MaximumDepth_fit(X, y) ==
  /\ clf # Absent
  /\ LET init == fit_init(y)
         st == [clf EXCEPT !.classes_ = NdArray(init.classes_),
                           !.distributions_ = List([c \in 1..init.n_classes |-> None])]
     IN clf' = Collected(MaximumDepth_fit_loop(st, 1, init.n_classes, X, init.y_ind))
  /\ prediction' = Returned("self") @@ [method |-> "fit", X |-> X, y |-> y]
  /\ UNCHANGED <<fpcaVars, fnVars>>

\* sklearn check_is_fitted(self): some attribute ending in "_" is set
IsFitted(estimator) ==
  estimator.classes_ # NoAttr \/ estimator.distributions_ # NoAttr

\* MaximumDepth.predict(X)
MaximumDepth_predict(X) ==
  /\ clf # Absent
  /\ IF ~IsFitted(clf)
       THEN prediction' = NotFittedError(MsgNotFitted)
                            @@ [method |-> "predict", X |-> X]
       ELSE LET depths == [c \in 1..Len(clf.distributions_.v) |->
                             Depth_predict(clf.objects[clf.distributions_.v[c]], X)]
                winner == ArgMaxAxis0(depths, Len(X))
            IN prediction' =
                 Returned([s \in 1..Len(X) |-> clf.classes_.v[winner[s]]])
                   @@ [method |-> "predict", X |-> X]
  /\ UNCHANGED <<clf, fpcaVars, fnVars>>

Samples(n) == SeqsUpTo(Values, n)

\* the estimator and the function calls of _fpca.py are not part of a
\* behaviour of the classifier
NoFPCA ==
  /\ params = Absent /\ kind = Absent /\ self = Absent /\ fdata = Absent
  /\ basisObjects = Absent /\ pc = Absent /\ frame = Absent /\ calls = Absent
  /\ pre = Absent /\ result = Absent

InitMaximumDepth ==
  /\ clf = MaximumDepth_init
  /\ prediction = NoResult @@ [method |-> "none"]
  /\ NoFPCA
  /\ arg = Absent /\ ret = Absent

NextMaximumDepth ==
  \/ \E n \in 1..MaxTrain : \E X \in [1..n -> Values], y \in [1..n -> Labels] :
       MaximumDepth_fit(X, y)
  \/ \E X \in Samples(MaxTest) : MaximumDepth_predict(X)

SpecMaximumDepth == InitMaximumDepth /\ [][NextMaximumDepth]_vars

\* ============================ the module-level functions of _fpca.py, by value
\* regularization_penalty_matrix and the default weights of FPCAGrid.fit,
\* applied to grids and operators the caller draws.  A matrix is its shape and
\* its rows; the entries are whole numbers, which is exact on grids of equal
\* steps (there 1 / mean(1 / diff) is the step and every hh is -1).

\* ------------------------------------------------------------------ bounds
\* Largest number of sample points of a grid, and largest sample point.
MaxPoints == 3
MaxCoord == 4
\* Largest order of a differential operator (its coefficients are c0..ck).
MaxOrder == 3

\* the coefficients an operator is made of
Coefficients == {0 - 1, 0, 1}

\* --------------------------------------------------------------------- numpy
Matrix(r, c, v) == [rows |-> r, cols |-> c, v |-> v]

\* np.zeros((r, c))
np_zeros(r, c) == Matrix(r, c, [i \in 1..r |-> [j \in 1..c |-> 0]])

\* np.diag(d) of a vector d
np_diag(d) ==
  Matrix(Len(d), Len(d),
         [i \in 1..Len(d) |-> [j \in 1..Len(d) |-> IF i = j THEN d[i] ELSE 0]])

\* np.ones(n)
np_ones(n) == [k \in 1..n |-> 1]

\* a + b of two matrices of one shape
np_add(a, b) ==
  Matrix(a.rows, a.cols,
         [i \in 1..a.rows |-> [j \in 1..a.cols |-> a.v[i][j] + b.v[i][j]]])

\* k * a
np_scale(k, a) ==
  Matrix(a.rows, a.cols,
         [i \in 1..a.rows |-> [j \in 1..a.cols |-> k * a.v[i][j]]])

\* np.transpose(a)
np_transpose(a) ==
  Matrix(a.cols, a.rows,
         [i \in 1..a.cols |-> [j \in 1..a.rows |-> a.v[j][i]]])

\* the sum of f[lo] .. f[hi]
RECURSIVE SumOver(_, _, _)
SumOver(f, lo, hi) == IF lo > hi THEN 0 ELSE f[lo] + SumOver(f, lo + 1, hi)

\* a @ b; Unbound when the inner dimensions differ (numpy raises ValueError)
np_matmul(a, b) ==
  IF a.cols # b.rows THEN Unbound
  ELSE Matrix(a.rows, b.cols,
              [i \in 1..a.rows |->
                 [j \in 1..b.cols |->
                    SumOver([k \in 1..a.cols |-> a.v[i][k] * b.v[k][j]],
                            1, a.cols)]])

\* a[:r, :c]
np_slice(a, r, c) ==
  Matrix(SliceLen(a.rows, r), SliceLen(a.cols, c),
         [i \in 1..SliceLen(a.rows, r) |->
            [j \in 1..SliceLen(a.cols, c) |-> a.v[i][j]]])

\* the product of the elements of s
RECURSIVE SeqProduct(_)
SeqProduct(s) == IF s = <<>> THEN 1 ELSE Head(s) * SeqProduct(Tail(s))

\* 1 / np.mean(1 / diff_values): n prod(d) / sum_j (prod(d) / d_j)
InverseMeanInverse(diff_values) ==
  (Len(diff_values) * SeqProduct(diff_values))
    \div SeqSum([j \in 1..Len(diff_values) |->
                   SeqProduct(diff_values) \div diff_values[j]])

\* lines 274-304: _auxiliary_penalty_matrix, the (P-1) x P matrix with hh[k]
\* at column k of row k and -hh[k] at column k + 1
auxiliary_penalty_matrix_values(sample_points) ==
  LET diff_values == Diff(sample_points)
      hh == [k \in 1..Len(diff_values) |->
               0 - (InverseMeanInverse(diff_values) \div diff_values[k])]
      n_points == Len(sample_points)
  IN Matrix(n_points - 1, n_points,
            [i \in 1..(n_points - 1) |->
               [j \in 1..n_points |->
                  (IF j = i THEN hh[i] ELSE 0)
                    + (IF j = i + 1 THEN 0 - hh[i] ELSE 0)]])

\* lines 339-348: the loop over the terms i..last of the operator, adding
\* penalty[i] * aux_penalty_1' aux_penalty_1 to penalty_matrix; Unbound when
\* a product raises
RECURSIVE PenaltyTerms(_, _, _, _, _, _)
PenaltyTerms(penalty_matrix, aux_penalty_1, aux_penalty_2, penalty, n_points, i) ==
  IF i > Len(penalty) - 1 THEN penalty_matrix
  ELSE LET chained ==
             IF i > 1
               THEN np_matmul(np_slice(aux_penalty_2, n_points - i, n_points - i + 1),
                              aux_penalty_1)
               ELSE aux_penalty_1
       IN IF chained = Unbound THEN Unbound
          ELSE PenaltyTerms(np_add(penalty_matrix,
                                   np_scale(penalty[i + 1],
                                            np_matmul(np_transpose(chained), chained))),
                            chained, aux_penalty_2, penalty, n_points, i + 1)

\* lines 307-349: regularization_penalty_matrix(sample_points, penalty); the
\* coefficient penalty[i] of Python is penalty[i + 1] here; everything is
\* added only when the coefficients do not sum to 0 (the gate of line 330)
regularization_penalty_matrix_values(sample_points, penalty) ==
  LET n_points == Len(sample_points)
      penalty_matrix == np_zeros(n_points, n_points)
  IN IF SeqSum(penalty) # 0
       THEN LET independent == np_add(penalty_matrix,
                                      np_scale(penalty[1], np_diag(np_ones(n_points))))
            IN IF Len(penalty) > 1
                 THEN PenaltyTerms(independent,
                                   auxiliary_penalty_matrix_values(sample_points),
                                   auxiliary_penalty_matrix_values(sample_points),
                                   penalty, n_points, 1)
                 ELSE independent
       ELSE penalty_matrix

\* ----------------------------------------------------------- the caller
\* grids: strictly increasing sample points
Grids ==
  {g \in SeqsUpTo(0..MaxCoord, MaxPoints) :
     \A k \in 1..(Len(g) - 1) : g[k] < g[k + 1]}

\* grids of equal steps
UniformGrids ==
  {g \in Grids : \A k \in 1..(Len(g) - 1) : g[k + 1] - g[k] = g[2] - g[1]}

\* operators c0..ck of order k <= MaxOrder
Operators == SeqsUpTo(Coefficients, MaxOrder + 1)

InitFunctions ==
  /\ \/ \E g \in UniformGrids, c \in Operators :
          arg = [f |-> "regularization_penalty_matrix",
                 sample_points |-> ScaledSeq(g), penalty |-> c]
     \/ \E g \in Grids :
          arg = [f |-> "weights", sample_points |-> ScaledSeq(g)]
  /\ ret = NoResult
  /\ NoFPCA
  /\ clf = Absent /\ prediction = Absent

\* penalty_matrix = regularization_penalty_matrix(sample_points, penalty)
Call_regularization_penalty_matrix ==
  /\ arg.f = "regularization_penalty_matrix"
  /\ ret = NoResult
  /\ LET penalty_matrix ==
           regularization_penalty_matrix_values(arg.sample_points, arg.penalty)
     IN ret' = IF penalty_matrix = Unbound THEN ValueError(MsgMatmul)
                                          ELSE Returned(penalty_matrix)
  /\ UNCHANGED <<arg, fpcaVars, mdVars>>

\* lines 469-472 of FPCAGrid.fit with self.weights = None
Call_TrapezoidalWeights ==
  /\ arg.f = "weights"
  /\ ret = NoResult
  /\ ret' = Returned(TrapezoidalWeights(arg.sample_points))
  /\ UNCHANGED <<arg, fpcaVars, mdVars>>

NextFunctions ==
  \/ Call_regularization_penalty_matrix
  \/ Call_TrapezoidalWeights

SpecFunctions == InitFunctions /\ [][NextFunctions]_vars

\* ================================================================= claims
\* the last finished call ran fit (alone or as the first step of fit_transform)
FitCall == pc = "idle" /\ result.status # "none"
           /\ result.method \in {"fit", "fit_transform"}

\* the coefficient matrix / data matrix of a functional data object
MatrixOf(obj) == IF kind = "FPCABasis" THEN obj.coefficients ELSE obj.data_matrix

\* the three fitted attributes and the configuration attributes
Fitted(s) == <<s.components_, s.component_values_, s.explained_variance_ratio_>>
Config(s) == IF kind = "FPCABasis" THEN <<s.penalty, s.components_basis>>
                                   ELSE <<s.penalty, s.weights>>

\* N of the X of the last call, and the bound B or P of the claim: the
\* caller's components_basis if one was supplied, else X's basis; the number
\* of discretization points for FPCAGrid
PreN == NRows(MatrixOf(pre.fdata[result.X]))
PreDim ==
  IF kind = "FPCAGrid" THEN NCols(pre.fdata[result.X].data_matrix)
  ELSE IF pre.basisObjects.caller # None THEN pre.basisObjects.caller.n_basis
  ELSE pre.fdata[result.X].basis.n_basis

PreconditionError ==
  result.status = "raised" /\ result.cls = "AttributeError"
  /\ result.msg \in {MsgSampleSize, MsgBasisSize, MsgGridSize}

\* C1 (as claimed): a fit call with n_components > N or n_components > B (or
\* P) ends with a precondition error before any matrix is built, and leaves
\* the fitted attributes, the configuration and X as they were.
C1_PreconditionFailureLeavesAllUnchanged ==
  (FitCall /\ (pre.self.n_components > PreN \/ pre.self.n_components > PreDim))
    => /\ PreconditionError
       /\ frame.g_matrix = Unbound /\ frame.weights_matrix = Unbound
       /\ self = pre.self
       /\ fdata = pre.fdata
       /\ basisObjects = pre.basisObjects

\* C2: in a fit call with n_components > N the error raised is the sample
\* size error, whatever B, P, lambda, penalty and the Gram matrix are.
C2_SampleSizeErrorFirst ==
  (FitCall /\ pre.self.n_components > PreN)
    => /\ result.status = "raised"
       /\ result.cls = "AttributeError"
       /\ result.msg = MsgSampleSize

\* C2 witness: the sample size error, raised with lambda > 0 in a call whose
\* n_components exceeds the dimension bound as well.
C2_Witness ==
  /\ FitCall
  /\ result.status = "raised" /\ result.msg = MsgSampleSize
  /\ pre.self.n_components > PreDim
  /\ pre.self.regularization_parameter > 0

\* the fitted attributes all come from fit call c
AllFromFit(s, c) ==
  /\ s.components_ # NoAttr /\ s.components_.fit = c
  /\ s.component_values_ # NoAttr /\ s.component_values_.fit = c
  /\ s.explained_variance_ratio_ # NoAttr /\ s.explained_variance_ratio_.fit = c

\* C3: after every call the three fitted attributes come from one fit call,
\* the most recent one that succeeded: a successful fit writes all three, any
\* other call leaves all three as they were; in no state does one of them
\* come from a newer fit than another.
C3_RefitAtomic ==
  /\ \/ Fitted(self) = <<NoAttr, NoAttr, NoAttr>>
     \/ \E c \in 1..calls : AllFromFit(self, c)
  /\ (pc = "idle" /\ calls > 0)
       => IF result.method \in {"fit", "fit_transform"} /\ result.status = "returned"
            THEN AllFromFit(self, calls)
            ELSE Fitted(self) = Fitted(pre.self)

\* C3 witness: a fit that failed in the factorization or in a solve, after an
\* earlier fit had succeeded.
C3_Witness ==
  /\ FitCall
  /\ result.status = "raised" /\ result.cls = "LinAlgError"
  /\ AllFromFit(self, 1)
  /\ calls = 2

\* what a transform call returned or raised
Outcome(r) == IF r.status = "returned" THEN <<"returned", r.value>>
                                        ELSE <<"raised", r.cls, r.msg>>

\* C4: transform changes no attribute of the estimator and not its input, and
\* transform run again on the same input gives the same output.
C4_TransformReadOnly ==
  (pc = "idle" /\ result.status # "none" /\ result.method = "transform")
    => /\ self = pre.self
       /\ fdata = pre.fdata
       /\ basisObjects = pre.basisObjects
       /\ (/\ pre.result.status = "returned"
           /\ pre.result.method \in {"transform", "fit_transform"}
           /\ pre.result.X = result.X)
            => Outcome(result) = Outcome(pre.result)

\* C4 witness: transform returned scores for the input the preceding
\* transform (the one fit_transform ran) had returned scores for.
C4_Witness ==
  /\ pc = "idle" /\ result.status = "returned" /\ result.method = "transform"
  /\ pre.result.status = "returned" /\ pre.result.X = result.X
  /\ pre.self.centering

\* C5: transform on an estimator no fit has succeeded on raises the error of
\* the missing components_ and returns nothing; fit_transform reaches its
\* transform step only after its own fit step succeeded.
C5_TransformNeedsFit ==
  /\ (pc = "idle" /\ result.status # "none" /\ result.method = "transform"
      /\ pre.self.components_ = NoAttr)
       => /\ result.status = "raised"
          /\ result.cls = "AttributeError"
          /\ result.msg = MsgNoComponents
  /\ (pc = "transform" /\ frame.method = "fit_transform")
       => AllFromFit(self, frame.call)
  /\ (pc = "idle" /\ result.status = "returned" /\ result.method = "fit_transform")
       => AllFromFit(self, calls)

\* C5 witness: transform raised on an estimator whose only fit had failed.
C5_Witness ==
  /\ pc = "idle" /\ result.status = "raised" /\ result.method = "transform"
  /\ result.msg = MsgNoComponents
  /\ pre.result.status = "raised" /\ pre.result.method = "fit"

\* the failure conditions C6 names, by the message raised
NamedFailures == {MsgSampleSize, MsgBasisSize, MsgGridSize, MsgNoComponents,
                  MsgNotPosDef, MsgSingular}

\* C6 (as claimed): two different failure conditions among n_components > N,
\* n_components > B or P, transform before fit, Cholesky failure and singular
\* solve are raised as different kinds (exception classes).
C6_DistinctErrorKinds ==
  (/\ pc = "idle"
   /\ result.status = "raised" /\ result.msg \in NamedFailures
   /\ pre.result.status = "raised" /\ pre.result.msg \in NamedFailures
   /\ result.msg # pre.result.msg)
    => result.cls # pre.result.cls

\* the basis dimension (FPCABasis) or grid size (FPCAGrid) of components_
ComponentsDim ==
  IF kind = "FPCABasis" THEN basisObjects[self.components_.basis.obj].n_basis
                        ELSE Len(self.components_.sample_points)
ComponentsShape ==
  IF kind = "FPCABasis" THEN self.components_.coefficients
                        ELSE self.components_.data_matrix

\* C7: after a successful fit component_values_ has n_components entries, the
\* squares of the singular values PCA reported, in descending order, and
\* components_ has n_components rows and B_target (or P) columns.
C7_FittedShapes ==
  (FitCall /\ result.status = "returned")
    => /\ Len(self.component_values_.v) = self.n_components
       /\ \A k \in 1..self.n_components :
            self.component_values_.v[k] =
              frame.pca.singular_values_[k] * frame.pca.singular_values_[k]
       /\ \A k \in 1..(self.n_components - 1) :
            self.component_values_.v[k] >= self.component_values_.v[k + 1]
       /\ ComponentsShape = Shape(self.n_components, ComponentsDim)

\* C7 witness: a successful fit of 2 components with distinct singular values
\* on a basis or grid of 3.
C7_Witness ==
  /\ FitCall /\ result.status = "returned"
  /\ self.n_components = 2
  /\ self.component_values_.v = <<4, 1>>
  /\ ComponentsShape = Shape(2, 3)

\* C8 (as claimed): after every fit call weights, penalty and components_basis
\* of the estimator, and the caller's components_basis object, hold the values
\* the caller supplied.
C8_ConfigurationUntouched ==
  FitCall => /\ Config(self) = Config(pre.self)
             /\ basisObjects.caller = pre.basisObjects.caller

ColumnSums(m) == [j \in 1..NCols(m) |-> SeqSum(Column(m, j))]

\* C9: a fit call that passes the precondition checks subtracts, when
\* centering is True, the sample mean from every row of X in place (leaving
\* column means zero, so that a later fit subtracts zero) and changes no
\* other object; with centering False it leaves X unchanged.
C9_CenteringInPlace ==
  (FitCall /\ ~PreconditionError)
    => LET before == MatrixOf(pre.fdata[result.X])
           after == MatrixOf(fdata[result.X])
       IN /\ \A y \in XIds \ {result.X} : fdata[y] = pre.fdata[y]
          /\ IF self.centering
               THEN /\ \A i \in 1..NRows(before), j \in 1..NCols(before) :
                         NRows(before) * after[i][j] =
                           NRows(before) * before[i][j] - ColumnSums(before)[j]
                    /\ \A j \in 1..NCols(after) : ColumnSums(after)[j] = 0
                    /\ (\A j \in 1..NCols(before) : ColumnSums(before)[j] = 0)
                         => after = before
               ELSE fdata = pre.fdata

\* C9 witness: the second of two fits on one object, which the first had
\* centered, and whose values the first had changed.
C9_Witness ==
  /\ FitCall /\ ~PreconditionError /\ self.centering
  /\ calls = 2 /\ pre.result.method = "fit" /\ pre.result.X = result.X
  /\ pre.result.status = "returned"
  /\ MatrixOf(fdata[result.X]) # MatrixOf(IF kind = "FPCABasis"
                                            THEN FDataBasisObjects[result.X]
                                            ELSE FDataGridObjects[result.X])
  /\ MatrixOf(fdata[result.X]) = MatrixOf(pre.fdata[result.X])

\* C10: an FPCAGrid.fit whose resolved weights hold a zero raises an error and
\* stores no components.
C10_ZeroWeightFails ==
  (/\ FitCall /\ kind = "FPCAGrid"
   /\ frame.weights_matrix # Unbound
   /\ \E k \in 1..Len(frame.weights_matrix.diag) : frame.weights_matrix.diag[k] = 0)
    => /\ result.status = "raised"
       /\ Fitted(self) = Fitted(pre.self)

\* C10 witness: the default trapezoidal weights of a one-point grid are zero,
\* and the solve with their square root raised.
C10_Witness ==
  /\ FitCall /\ kind = "FPCAGrid"
  /\ pre.self.weights = None
  /\ frame.weights_matrix # Unbound /\ frame.weights_matrix.diag = <<0>>
  /\ result.status = "raised" /\ result.cls = "LinAlgError"
  /\ result.msg = MsgSingular

\* ---------------------------------------------------------------------------
\* C11  MaximumDepth classifies each test sample to the class where it is
\* deepest.  fit leaves depth_method unfitted and gives every class of
\* classes_ its own fitted clone, fitted on the training samples carrying that
\* label; predict on a fitted classifier returns for every sample the label
\* of a class of largest depth, the first such class in classes_ order;
\* predict on a classifier never fitted raises and returns no labels.
DepthIn(c, x) == Depth_predict(clf.objects[clf.distributions_.v[c]], <<x>>)[1]

SamplesLabelled(X, y, label) ==
  LET at == SortedSeq({k \in 1..Len(X) : y[k] = label})
  IN [k \in 1..Len(at) |-> X[at[k]]]

C11_DeepestClass ==
  /\ IsFitted(clf) =>
       /\ ~clf.objects[clf.depth_method].fitted
       /\ Len(clf.distributions_.v) = Len(clf.classes_.v)
       /\ \A c \in 1..Len(clf.classes_.v) :
            /\ clf.distributions_.v[c] # clf.depth_method
            /\ clf.objects[clf.distributions_.v[c]].fitted
            /\ \A d \in 1..Len(clf.classes_.v) :
                 c # d => clf.distributions_.v[c] # clf.distributions_.v[d]
  /\ (prediction.method = "fit") =>
       /\ \A k \in 1..Len(prediction.y) :
            \E c \in 1..Len(clf.classes_.v) : clf.classes_.v[c] = prediction.y[k]
       /\ \A c \in 1..Len(clf.classes_.v) :
            /\ c > 1 => clf.classes_.v[c - 1] < clf.classes_.v[c]
            /\ clf.objects[clf.distributions_.v[c]].samples
                 = SamplesLabelled(prediction.X, prediction.y, clf.classes_.v[c])
            /\ clf.objects[clf.distributions_.v[c]].samples # <<>>
  /\ (prediction.method = "predict" /\ IsFitted(clf)) =>
       /\ prediction.status = "returned"
       /\ Len(prediction.value) = Len(prediction.X)
       /\ \A s \in 1..Len(prediction.X) :
            \E i \in 1..Len(clf.classes_.v) :
              /\ prediction.value[s] = clf.classes_.v[i]
              /\ \A j \in 1..Len(clf.classes_.v) :
                   ~Greater(DepthIn(j, prediction.X[s]), DepthIn(i, prediction.X[s]))
              /\ \A j \in 1..(i - 1) :
                   Greater(DepthIn(i, prediction.X[s]), DepthIn(j, prediction.X[s]))
  /\ (prediction.method = "predict" /\ ~IsFitted(clf)) =>
       /\ prediction.status = "raised"
       /\ prediction.cls = "NotFittedError"

\* predict has classified a sample that is equally deep in two classes and
\* another sample to the second class
C11_Witness ==
  /\ prediction.method = "predict"
  /\ prediction.status = "returned"
  /\ Len(clf.classes_.v) > 1
  /\ \E s \in 1..Len(prediction.X) :
       /\ ~Greater(DepthIn(1, prediction.X[s]), DepthIn(2, prediction.X[s]))
       /\ ~Greater(DepthIn(2, prediction.X[s]), DepthIn(1, prediction.X[s]))
  /\ \E s \in 1..Len(prediction.X) : prediction.value[s] = clf.classes_.v[2]

\* ---------------------------------------------------------------------------
\* the weight vector a fit derives from the grid of its own X when the
\* estimator was constructed with weights w (None or a callable)
FreshWeights(w, sample_points) ==
  IF w = None THEN TrapezoidalWeights(sample_points)
  ELSE CallWeights(w.f, sample_points).v

\* C12 (as claimed): an FPCAGrid constructed with weights=None or with a
\* callable resolves its weights anew in every fit call: each fit that passes
\* the size checks, the first and every later one, gets through the weight
\* step and uses the vector derived from the grid of the X it was given.
C12_WeightsResolvedPerFit ==
  (FitCall /\ kind = "FPCAGrid"
     /\ (params.weights = None \/ params.weights.tag = "callable")
     /\ ~PreconditionError
     /\ Len(fdata[result.X].sample_points) > 1)
  => /\ frame.weights_matrix # Unbound
     /\ frame.weights_matrix.diag
          = FreshWeights(params.weights, fdata[result.X].sample_points)

\* ---------------------------------------------------------------------------
\* C13 (as claimed): every FPCABasis.fit call resolves the target basis from
\* its own input.  With a components_basis supplied to the constructor the
\* fitted components_ are expressed over that basis; with none supplied they
\* are expressed over the basis of the X of this call, and n_components is
\* checked against the dimension of that X's basis, whatever basis the X of
\* an earlier fit had.
C13_TargetBasisPerCall ==
  (FitCall /\ kind = "FPCABasis") =>
    LET x_basis == fdata[result.X].basis
    IN /\ (params.components_basis = None
            /\ self.n_components <= PreN
            /\ self.n_components > x_basis.n_basis)
          => (PreconditionError /\ result.msg = MsgBasisSize)
       /\ (params.components_basis = None /\ result.status = "returned")
          => /\ basisObjects[self.components_.basis.obj].n_basis = x_basis.n_basis
             /\ basisObjects[self.components_.basis.obj].domain_range
                  = x_basis.domain_range
       /\ (params.components_basis # None /\ result.status = "returned")
          => /\ self.components_.basis.obj = "caller"
             /\ ComponentsDim = params.components_basis.n_basis

\* ---------------------------------------------------------------------------
\* the running (or last) fit has gone past its regularization block
PastRegularization ==
  \/ pc \in {"B_cholesky", "B_pca", "B_store", "G_pca", "G_store"}
  \/ frame.pca # Unbound

\* C14: with regularization_parameter = 0 a fit of either variant skips the
\* penalty entirely: no penalty matrix is built, the penalty setting is left
\* as it was (an integer order is not converted), and nothing regularized goes
\* into the matrix handed to PCA.  With regularization_parameter > 0 every fit
\* that gets past the regularization block has built the penalty matrix and
\* used it.
C14_PenaltyOnlyWhenRegularized ==
  (frame.method \in {"fit", "fit_transform"}) =>
    /\ (self.regularization_parameter = 0) =>
         /\ frame.penalty_matrix = Unbound
         /\ ~frame.regularized
         /\ self.penalty = pre.self.penalty
    /\ (self.regularization_parameter > 0 /\ PastRegularization) =>
         /\ frame.penalty_matrix # Unbound
         /\ frame.regularized
    /\ (frame.penalty_matrix # Unbound \/ frame.regularized) =>
         self.regularization_parameter > 0

\* a fit without regularization has returned with its integer penalty order
\* still in place
C14_Witness ==
  /\ FitCall /\ result.status = "returned"
  /\ self.regularization_parameter = 0
  /\ self.penalty.tag = "int"
  /\ frame.final_matrix # Unbound

\* ---------------------------------------------------------------------------
\* the binomial coefficient
RECURSIVE Binomial(_, _)
Binomial(n, k) ==
  IF k = 0 \/ k = n THEN 1 ELSE Binomial(n - 1, k - 1) + Binomial(n - 1, k)

\* the i-th difference operator on P points of equal steps, (P - i) x P: row r
\* holds (-1)^(i-j) Binomial(i, j) at column r + j, j = 0..i
DifferenceOperator(i, P) ==
  Matrix(P - i, P,
         [r \in 1..(P - i) |->
            [col \in 1..P |->
               IF col < r \/ col > r + i THEN 0
               ELSE (IF (i - (col - r)) % 2 = 0 THEN 1 ELSE 0 - 1)
                      * Binomial(i, col - r)]])

\* c0 I + sum over i = 1..k of ci (D^i)' (D^i) on P points of equal steps
RECURSIVE PenaltySum(_, _, _)
PenaltySum(c, P, i) ==
  IF i = 0 THEN np_scale(c[1], np_diag(np_ones(P)))
  ELSE np_add(PenaltySum(c, P, i - 1),
              np_scale(c[i + 1],
                       np_matmul(np_transpose(DifferenceOperator(i, P)),
                                 DifferenceOperator(i, P))))

PenaltyCall == arg # Absent /\ arg.f = "regularization_penalty_matrix"
                 /\ ret.status # "none"
NPoints == Len(arg.sample_points)
Order == Len(arg.penalty) - 1

\* C15 (as claimed): on P points of equal steps and for every operator
\* c0..ck with k <= P - 1, regularization_penalty_matrix returns the symmetric
\* P x P matrix c0 I + sum of ci (D^i)' (D^i), entry by entry, and so returns
\* the zero matrix exactly when that sum is the zero matrix, as it is when
\* every ci is 0.
C15_PenaltyMatrixIsOperatorSum ==
  (PenaltyCall /\ Order <= NPoints - 1) =>
    /\ ret.status = "returned"
    /\ ret.value = PenaltySum(arg.penalty, NPoints, Order)
    /\ ret.value = np_transpose(ret.value)
    /\ (ret.value = np_zeros(NPoints, NPoints))
         <=> (PenaltySum(arg.penalty, NPoints, Order) = np_zeros(NPoints, NPoints))
    /\ (\A i \in 1..Len(arg.penalty) : arg.penalty[i] = 0)
         => ret.value = np_zeros(NPoints, NPoints)

\* ---------------------------------------------------------------------------
\* C16 (as claimed): regularization_penalty_matrix handles operators of order
\* up to P - 1 and raises for every operator c0..ck, ck # 0, whose order k is
\* P or more, where the chained difference operator has no rows left; it
\* never returns a matrix for such an operator.
C16_OrderBeyondGridRaises ==
  /\ (PenaltyCall /\ Order <= NPoints - 1) => ret.status = "returned"
  /\ (PenaltyCall /\ Order >= NPoints /\ arg.penalty[Order + 1] # 0)
       => ret.status = "raised"

\* ---------------------------------------------------------------------------
\* C17: with weights=None the weights FPCAGrid.fit derives from the grid
\* x1 < ... < xP are those of the composite trapezoidal rule: one per point,
\* (x2 - x1) / 2 at the first point, (xP - x(P-1)) / 2 at the last and
\* (x(k+1) - x(k-1)) / 2 in between; for P >= 2 every weight is positive and
\* the weights add up to xP - x1; on the grid (0, 1) they are (1/2, 1/2).
C17_TrapezoidalWeights ==
  (arg # Absent /\ arg.f = "weights" /\ ret.status # "none") =>
    LET x == arg.sample_points
        w == ret.value
        P == Len(arg.sample_points)
    IN /\ ret.status = "returned"
       /\ Len(w) = P
       /\ (P >= 2) =>
            /\ 2 * w[1] = x[2] - x[1]
            /\ 2 * w[P] = x[P] - x[P - 1]
            /\ \A k \in 2..(P - 1) : 2 * w[k] = x[k + 1] - x[k - 1]
            /\ \A k \in 1..P : w[k] > 0
            /\ SeqSum(w) = x[P] - x[1]
       /\ (x = <<0, Unit>>) => (2 * w[1] = Unit /\ 2 * w[2] = Unit)

\* the weights of a grid of three points of unequal steps have been computed
C17_Witness ==
  /\ arg # Absent /\ arg.f = "weights" /\ ret.status = "returned"
  /\ Len(arg.sample_points) = 3
  /\ arg.sample_points[2] - arg.sample_points[1]
       # arg.sample_points[3] - arg.sample_points[2]
  /\ 2 * ret.value[2] = arg.sample_points[3] - arg.sample_points[1]

====
